---- MODULE Spec2Model ----
(***************************************************************************)
(* Model of the langchain-xinference adapters:                             *)
(*   Xinference            (src/langchain_xinference/llms.py)              *)
(*   XinferenceEmbeddings  (src/langchain_xinference/embeddings.py)        *)
(*                                                                         *)
(* One adapter object is constructed and then used for a sequence of       *)
(* operations.  The remote cluster (auth probe, client construction,       *)
(* generate and create_embedding responses) is the environment: every      *)
(* response is chosen with \E from a small set.  Streaming operations are  *)
(* generators and advance one loop step per action, so that the order of   *)
(* observer notifications and yields is visible.                           *)
(*                                                                         *)
(* The client library is taken to be importable, as the class docstrings   *)
(* require ("To use, you should have the xinference library installed"):   *)
(* the ImportError guard of the constructors is not part of the model.     *)
(***************************************************************************)
EXTENDS Integers, Sequences, FiniteSets, TLC

VARIABLES
    kind,            \* "none" | "llm" | "emb": the class that was instantiated
    built,           \* "no" | "ok" | "failed": outcome of __init__
    ctorError,       \* the exception __init__ raised
    ctorArgs,        \* the arguments __init__ received
    probe,           \* the response GET /v1/cluster/auth gave to __init__
    server_url,      \* self.server_url
    model_uid,       \* self.model_uid
    model_kwargs,    \* self.model_kwargs (Xinference only)
    headers,         \* self._headers["Authorization"], or None
    cluster_authed,  \* self._cluster_authed
    client,          \* self.client
    async_client,    \* self.async_client
    op,              \* the operation in progress or last finished
    pc,              \* position inside the operation
    args,            \* the arguments the caller passed to the operation
    caller_config,   \* the caller's generate_config mapping, as the operation leaves it
    sent,            \* generate_config passed to model.generate, or NotSent
    emitted,         \* the fragments the remote streaming call emitted so far
    token,           \* the token of the current iteration of _stream_generate
    chunk,           \* the chunk of the current iteration of _stream
    observed,        \* tokens run_manager.on_llm_new_token received
    tokens,          \* tokens _stream_generate yielded to _call
    chunks,          \* GenerationChunks _stream yielded to the caller
    combined,        \* combined_text_output of _call
    texts,           \* the texts argument of embed_documents
    calls,           \* the texts passed to model.create_embedding, in order
    responses,       \* the responses create_embedding returned, in order
    result,          \* the value the operation returned
    error,           \* the exception the operation raised
    earlier          \* an earlier operation on this adapter passed a stop list
                     \* and had its stream flag forced on

adapterVars == <<kind, built, ctorError, ctorArgs, probe, server_url, model_uid,
                 model_kwargs, headers, cluster_authed, client, async_client>>
opVars == <<op, pc, args, caller_config, sent, emitted, token, chunk, observed, tokens, chunks, combined,
            texts, calls, responses, result, error>>
vars == <<adapterVars, opVars, earlier>>

----------------------------------------------------------------------------
(* Bounds of the model *)

\* Most fragments one remote streaming call emits.
MaxFrags == 2
\* Most texts one embed_documents call receives.
MaxTexts == 2

----------------------------------------------------------------------------
(* Python values *)

None == "None"
Absent == "absent"          \* a key that is not in a dict

NoError == [type |-> "none", msg |-> ""]
Raise(t, m) == [type |-> t, msg |-> m]

\* Python truthiness of an option value (dict.get gives None for a missing key).
Truthy(v) == v \notin {Absent, None, "False", "[]"}

\* Strings are sequences of characters, so that concatenation is \o.
EmptyStr == << >>
----------------------------------------------------------------------------
(* generate_config dictionaries: a function from the keys to a value or Absent *)

Keys == {"stream", "stop", "max_tokens"}
Options(s, st, mt) == [k \in Keys |->
    IF k = "stream" THEN s ELSE IF k = "stop" THEN st ELSE mt]
EmptyOptions == Options(Absent, Absent, Absent)

\* **model_kwargs given to the constructor
ModelKwargsSet == {EmptyOptions,
                   Options("True", "[a]", Absent),
                   Options("False", Absent, "1")}
\* generate_config given to a call (kwargs.get("generate_config", {}))
GenerateConfigSet == {EmptyOptions,
                      Options("True", Absent, "2"),
                      Options("False", "[b]", Absent)}
\* the stop argument of a call
StopArgSet == {None, "[]", "[c]"}

NotSent == [k \in Keys |-> "not sent"]

\* {**a, **b}
DictMerge(a, b) == [k \in Keys |-> IF b[k] # Absent THEN b[k] ELSE a[k]]

\* if stop: generate_config["stop"] = stop
ApplyStop(cfg, stop) ==
    IF Truthy(stop) THEN [cfg EXCEPT !["stop"] = stop] ELSE cfg

\* generate_config = {**self.model_kwargs, **generate_config}; if stop: ...
MutMergeDefaultsWin(defaults, generate_config, stop) ==
    ApplyStop(DictMerge(generate_config, defaults), stop)
MergeOptions(defaults, generate_config, stop) ==
    ApplyStop(DictMerge(defaults, generate_config), stop)

\* if "stream" not in generate_config or not generate_config.get("stream", False):
\*     generate_config["stream"] = True
ForceStream(cfg) ==
    IF cfg["stream"] = Absent \/ ~Truthy(cfg["stream"])
    THEN [cfg EXCEPT !["stream"] = "True"] ELSE cfg

----------------------------------------------------------------------------
(* Responses of model.generate *)

\* A response fragment.  shape:
\*   "empty"      {}                                   (falsy)
\*   "nochoices"  {"choices": []}
\*   "choice"     {"choices": [{"text": ..., "finish_reason": ...}]}
\*   "badchoice"  {"choices": ["x"]}  (the first choice is not a mapping)
\*   "notdict"    a non-empty value that is not a mapping
Fragment(shape, text, fr) == [shape |-> shape, text |-> text, finish_reason |-> fr]
FragmentSet ==
    {Fragment("empty", EmptyStr, None),
     Fragment("nochoices", EmptyStr, None),
     Fragment("badchoice", EmptyStr, None),
     Fragment("notdict", EmptyStr, None),
     Fragment("choice", <<"a">>, None),
     Fragment("choice", <<"b">>, "stop")}

NoInfo == [present |-> FALSE, finish_reason |-> None, logprobs |-> None]
GenerationChunk(text, info) == [text |-> text, generation_info |-> info]
NoChunk == GenerationChunk(EmptyStr, NoInfo)

\* completion["choices"][0]["text"] of a non-streaming response
CompletionText(resp) ==
    CASE resp.shape = "choice"    -> [ok |-> TRUE, text |-> resp.text, err |-> NoError]
      [] resp.shape = "empty"     -> [ok |-> FALSE, text |-> EmptyStr,
                                      err |-> Raise("KeyError", "choices")]
      [] resp.shape = "nochoices" -> [ok |-> FALSE, text |-> EmptyStr,
                                      err |-> Raise("IndexError", "list index out of range")]
      [] OTHER                    -> [ok |-> FALSE, text |-> EmptyStr,
                                      err |-> Raise("TypeError", "indices")]

\* The body of the loop of _stream_generate: whether the fragment produces a
\* token, and the token.
GenerateToken(frag) ==
    IF frag.shape # "notdict"                            \* isinstance(chunk, dict)
    THEN IF frag.shape \in {"choice", "badchoice"}       \* if choices:
         THEN IF frag.shape = "choice"                   \* isinstance(choice, dict)
              THEN [yields |-> TRUE, token |-> frag.text]
              ELSE [yields |-> FALSE, token |-> EmptyStr]
         ELSE [yields |-> FALSE, token |-> EmptyStr]
    ELSE [yields |-> FALSE, token |-> EmptyStr]

\* _stream_response_to_generation_chunk
MutChunkInfoAlways(stream_response) ==
    IF stream_response.shape \in {"choice", "nochoices"}
    THEN [ok |-> TRUE, err |-> NoError,
          chunk |-> GenerationChunk(stream_response.text,
                       [present |-> TRUE,
                        finish_reason |-> stream_response.finish_reason,
                        logprobs |-> None])]
    ELSE [ok |-> FALSE, chunk |-> NoChunk,
          err |-> Raise("TypeError", "choice type error!")]
StreamResponseToGenerationChunk(stream_response) ==
    IF stream_response.shape # "notdict"
    THEN IF stream_response.shape \in {"choice", "badchoice"}
         THEN IF stream_response.shape = "choice"
              THEN [ok |-> TRUE, err |-> NoError,
                    chunk |-> GenerationChunk(stream_response.text,
                                 [present |-> TRUE,
                                  finish_reason |-> stream_response.finish_reason,
                                  logprobs |-> None])]
              ELSE [ok |-> FALSE, chunk |-> NoChunk,
                    err |-> Raise("TypeError", "choice type error!")]
         ELSE [ok |-> TRUE, chunk |-> GenerationChunk(EmptyStr, NoInfo), err |-> NoError]
    ELSE [ok |-> FALSE, chunk |-> NoChunk,
          err |-> Raise("TypeError", "stream_response type error!")]

\* if stream_resp:
MutEveryFragmentTruthy(stream_resp) == TRUE
FragmentTruthy(stream_resp) == stream_resp.shape # "empty"

----------------------------------------------------------------------------
(* Construction: Xinference.__init__ and XinferenceEmbeddings.__init__ *)

UrlSet == {None, "http://x"}
UidSet == {None, "uid"}
ApiKeySet == {None, "key"}

\* Responses of GET {server_url}/v1/cluster/auth: the status code and the "auth"
\* field of the JSON body (JSON null reads as None).
ProbeSet == {[status_code |-> 404, auth |-> None],
             [status_code |-> 200, auth |-> "True"],
             [status_code |-> 200, auth |-> "False"],
             [status_code |-> 200, auth |-> None],
             [status_code |-> 500, auth |-> None]}
NoProbe == [status_code |-> 0, auth |-> None]

NoHeader == [present |-> FALSE, value |-> None]
Bearer(key) == [present |-> TRUE, value |-> key]

\* if server_url is None: raise ValueError; if model_uid is None: raise ValueError
MutCheckArgumentsUrlOnly(url, uid) ==
    IF url = None THEN Raise("ValueError", "Please provide server URL") ELSE NoError
CheckArguments(url, uid) ==
    IF url = None THEN Raise("ValueError", "Please provide server URL")
    ELSE IF uid = None THEN Raise("ValueError", "Please provide the model UID")
    ELSE NoError

\* _check_cluster_authenticated: the value of self._cluster_authed, or the error
CheckClusterAuthenticated(response) ==
    IF response.status_code = 404
    THEN [err |-> NoError, authed |-> FALSE]
    ELSE IF response.status_code # 200
         THEN [err |-> Raise("RuntimeError", "Failed to get cluster information"),
               authed |-> FALSE]
         ELSE [err |-> NoError, authed |-> Truthy(response.auth)]

\* if api_key is not None and self._cluster_authed:
\*     self._headers["Authorization"] = f"Bearer {api_key}"
MutHeaderWheneverKey(key, authed) ==
    IF key # None THEN Bearer(key) ELSE NoHeader
AuthorizationHeader(key, authed) ==
    IF key # None /\ authed THEN Bearer(key) ELSE NoHeader

\* try: self.async_client = AsyncRESTfulClient(...) except RuntimeError: None
AsyncClientOf(outcome) == IF outcome = "RuntimeError" THEN None ELSE "handle"

NoArgs == [server_url |-> None, model_uid |-> None, api_key |-> None,
           model_kwargs |-> EmptyOptions]

\* The body both constructors share.  syncOutcome and asyncOutcome are what
\* RESTfulClient(...) and AsyncRESTfulClient(...) do: "ok" or the exception raised.
InitBody(cls, url, uid, key, kwargs, response, syncOutcome, asyncOutcome) ==
    LET argErr == CheckArguments(url, uid)
        auth   == CheckClusterAuthenticated(response)
        err    == IF argErr # NoError THEN argErr
                  ELSE IF auth.err # NoError THEN auth.err
                  ELSE IF syncOutcome # "ok" THEN Raise(syncOutcome, "RESTfulClient")
                  ELSE NoError
    IN  /\ built = "no"
        /\ kind' = cls
        /\ ctorArgs' = [server_url |-> url, model_uid |-> uid, api_key |-> key,
                        model_kwargs |-> kwargs]
        /\ probe' = IF argErr # NoError THEN NoProbe ELSE response
        /\ ctorError' = err
        /\ IF err = NoError
           THEN /\ built' = "ok"
                /\ server_url' = url
                /\ model_uid' = uid
                /\ model_kwargs' = kwargs
                /\ cluster_authed' = auth.authed
                /\ headers' = AuthorizationHeader(key, auth.authed)
                /\ client' = "handle"
                /\ async_client' = AsyncClientOf(asyncOutcome)
           ELSE /\ built' = "failed"
                /\ UNCHANGED <<server_url, model_uid, model_kwargs, cluster_authed,
                               headers, client, async_client>>
        /\ UNCHANGED <<opVars, earlier>>

XinferenceInit ==
    \E url \in UrlSet, uid \in UidSet, key \in ApiKeySet, kwargs \in ModelKwargsSet,
       response \in ProbeSet, syncOutcome \in {"ok", "RuntimeError"},
       asyncOutcome \in {"ok", "RuntimeError"} :
        InitBody("llm", url, uid, key, kwargs, response, syncOutcome, asyncOutcome)

XinferenceEmbeddingsInit ==
    \E url \in UrlSet, uid \in UidSet, key \in ApiKeySet,
       response \in ProbeSet, syncOutcome \in {"ok", "RuntimeError"},
       asyncOutcome \in {"ok", "RuntimeError"} :
        InitBody("emb", url, uid, key, EmptyOptions, response, syncOutcome, asyncOutcome)

----------------------------------------------------------------------------
(* Operations of Xinference *)

NoResult == << >>
CallArgs(gc, stop, rm) == [generate_config |-> gc, stop |-> stop, run_manager |-> rm]
NoCallArgs == CallArgs(EmptyOptions, None, FALSE)
NotInitialized == Raise("ValueError", "Client is not initialized!")

\* The operation starts with fresh locals.
Begin(name, a) ==
    /\ op' = name
    /\ args' = a
    /\ emitted' = << >>
    /\ token' = EmptyStr
    /\ chunk' = NoChunk
    /\ observed' = << >>
    /\ tokens' = << >>
    /\ chunks' = << >>
    /\ combined' = EmptyStr

\* generate_config = {**self.model_kwargs, **generate_config} binds the local
\* name to a new dict: the later writes (["stop"] = stop, ["stream"] = True) go
\* to that dict.  What self.model_kwargs and the caller's mapping hold once the
\* local dict has its final contents:
MutSelfKwargsUpdatedInPlace(defaults, final) == final
SelfKwargsAfter(defaults, final) == defaults
CallerConfigAfter(passed, final) == passed

\* Everything of the adapter but model_kwargs.
adapterRest == <<kind, built, ctorError, ctorArgs, probe, server_url, model_uid,
                 headers, cluster_authed, client, async_client>>

\* _call (name = "call", through self.client) and _acall (name = "acall", through
\* self.async_client), up to the remote generate call.
Call(name, generate_config, stop, run_manager) ==
    LET handle == IF name = "call" THEN client ELSE async_client
        merged == MergeOptions(model_kwargs, generate_config, stop)
    IN  /\ built = "ok" /\ kind = "llm" /\ pc = "idle"
        /\ Begin(name, CallArgs(generate_config, stop, run_manager))
        /\ texts' = << >> /\ calls' = << >> /\ responses' = << >>
        /\ IF handle = None
           THEN /\ model_kwargs' = model_kwargs
                /\ caller_config' = generate_config
           ELSE /\ model_kwargs' = SelfKwargsAfter(model_kwargs, merged)
                /\ caller_config' = CallerConfigAfter(generate_config, merged)
        /\ IF handle = None
           THEN /\ pc' = "raised"
                /\ error' = NotInitialized
                /\ sent' = NotSent
                /\ result' = NoResult
           ELSE IF Truthy(merged["stream"])
           THEN /\ pc' = "generate"
                /\ error' = NoError
                /\ sent' = merged
                /\ result' = NoResult
           ELSE \E completion \in FragmentSet :
                  LET r == CompletionText(completion)
                  IN  /\ pc' = IF r.ok THEN "done" ELSE "raised"
                      /\ error' = r.err
                      /\ sent' = merged
                      /\ result' = r.text
        /\ UNCHANGED <<adapterRest, earlier>>

\* One iteration of the loop of _stream_generate / _astream_generate, up to the
\* notification or the yield; or the end of the remote stream, on which _call
\* returns combined_text_output.
StreamGenerateNext ==
    /\ pc = "generate"
    /\ \/ /\ Len(emitted) < MaxFrags
          /\ \E frag \in FragmentSet :
                LET g == GenerateToken(frag)
                IN  /\ emitted' = Append(emitted, frag)
                    /\ token' = g.token
                    /\ pc' = IF ~g.yields THEN "generate"
                             ELSE IF args.run_manager THEN "generate_notify"
                             ELSE "generate_yield"
          /\ UNCHANGED result
       \/ /\ pc' = "done"
          /\ result' = combined
          /\ UNCHANGED <<emitted, token>>
    /\ UNCHANGED <<adapterVars, earlier, op, args, caller_config,
                   sent, chunk, observed, tokens, chunks,
                   combined, texts, calls, responses, error>>

\* run_manager.on_llm_new_token(token=token, ...)
StreamGenerateNotify ==
    /\ pc = "generate_notify"
    /\ observed' = Append(observed, token)
    /\ pc' = "generate_yield"
    /\ UNCHANGED <<adapterVars, earlier, op, args, caller_config,
                   sent, emitted, token, chunk, tokens, chunks,
                   combined, texts, calls, responses, result, error>>

\* combined_text_output += token
MutAccumulatePrepend(text, tok) == tok \o text
Accumulate(text, tok) == text \o tok

\* yield token; combined_text_output += token
StreamGenerateYield ==
    /\ pc = "generate_yield"
    /\ tokens' = Append(tokens, token)
    /\ combined' = Accumulate(combined, token)
    /\ pc' = "generate"
    /\ UNCHANGED <<adapterVars, earlier, op, args, caller_config,
                   sent, emitted, token, chunk, observed, chunks,
                   texts, calls, responses, result, error>>

\* _stream (name = "stream") and _astream (name = "astream"), up to the remote
\* generate call.
Stream(name, generate_config, stop, run_manager) ==
    LET handle == IF name = "stream" THEN client ELSE async_client
        forced == ForceStream(MergeOptions(model_kwargs, generate_config, stop))
    IN  /\ built = "ok" /\ kind = "llm" /\ pc = "idle"
        /\ Begin(name, CallArgs(generate_config, stop, run_manager))
        /\ texts' = << >> /\ calls' = << >> /\ responses' = << >>
        /\ result' = NoResult
        /\ model_kwargs' = SelfKwargsAfter(model_kwargs, forced)
        /\ caller_config' = CallerConfigAfter(generate_config, forced)
        /\ IF handle = None
           THEN /\ pc' = "raised"
                /\ error' = NotInitialized
                /\ sent' = NotSent
           ELSE /\ pc' = "stream"
                /\ error' = NoError
                /\ sent' = forced
        /\ UNCHANGED <<adapterRest, earlier>>

\* One iteration of the loop of _stream / _astream, up to the notification or
\* the yield; or the end of the remote stream.
StreamNext ==
    /\ pc = "stream"
    /\ \/ /\ Len(emitted) < MaxFrags
          /\ \E stream_resp \in FragmentSet :
                LET r == StreamResponseToGenerationChunk(stream_resp)
                IN  /\ emitted' = Append(emitted, stream_resp)
                    /\ IF ~FragmentTruthy(stream_resp)
                       THEN /\ pc' = "stream"
                            /\ UNCHANGED <<chunk, error>>
                       ELSE IF ~r.ok
                       THEN /\ pc' = "raised"
                            /\ error' = r.err
                            /\ UNCHANGED chunk
                       ELSE /\ pc' = IF args.run_manager THEN "stream_notify"
                                     ELSE "stream_yield"
                            /\ chunk' = r.chunk
                            /\ UNCHANGED error
       \/ /\ pc' = "done"
          /\ UNCHANGED <<emitted, chunk, error>>
    /\ UNCHANGED <<adapterVars, earlier, op, args, caller_config,
                   sent, token, observed, tokens, chunks,
                   combined, texts, calls, responses, result>>

MutStreamNotifySkipsEmptyText ==
    /\ pc = "stream_notify"
    /\ observed' = IF chunk.text = EmptyStr THEN observed ELSE Append(observed, chunk.text)
    /\ pc' = "stream_yield"
    /\ UNCHANGED <<adapterVars, earlier, op, args, caller_config,
                   sent, emitted, token, chunk, tokens, chunks,
                   combined, texts, calls, responses, result, error>>
\* run_manager.on_llm_new_token(chunk.text, ...)
StreamNotify ==
    /\ pc = "stream_notify"
    /\ observed' = Append(observed, chunk.text)
    /\ pc' = "stream_yield"
    /\ UNCHANGED <<adapterVars, earlier, op, args, caller_config,
                   sent, emitted, token, chunk, tokens, chunks,
                   combined, texts, calls, responses, result, error>>

\* yield chunk
StreamYield ==
    /\ pc = "stream_yield"
    /\ chunks' = Append(chunks, chunk)
    /\ pc' = "stream"
    /\ UNCHANGED <<adapterVars, earlier, op, args, caller_config,
                   sent, emitted, token, chunk, observed, tokens,
                   combined, texts, calls, responses, result, error>>

----------------------------------------------------------------------------
(* Operations of XinferenceEmbeddings *)

\* A number of a response, with its Python type; float(x) keeps the value.
PyInt(n) == [t |-> "int", v |-> n]
PyFloat(x) == [t |-> "float", v |-> x.v]
ToFloats(e) == [j \in 1..Len(e) |-> PyFloat(e[j])]           \* list(map(float, e))

\* Responses of model.create_embedding(text): {"data": [{"embedding": [...]}, ...]}
EmbeddingResponseSet ==
    {[data |-> << >>],
     [data |-> << <<PyInt(1), PyInt(2)>> >>],
     [data |-> << <<PyInt(3), PyInt(4)>>, <<PyInt(1), PyInt(2)>> >>]}

TextSet == {"a", "b"}
TextsSet == UNION {[1..n -> TextSet] : n \in 0..MaxTexts}

NoGetModel == Raise("AttributeError", "'NoneType' object has no attribute 'get_model'")
NoData == Raise("IndexError", "list index out of range")

\* response["data"][0]["embedding"]
MutEmbeddingOfLast(response) == response.data[Len(response.data)]
EmbeddingOf(response) == response.data[1]

\* embed_documents (name = "embed_documents", through self.client) and
\* aembed_documents (through self.async_client), up to get_model.
EmbedDocuments(name, ts) ==
    LET handle == IF name = "embed_documents" THEN client ELSE async_client
    IN  /\ built = "ok" /\ kind = "emb" /\ pc = "idle"
        /\ Begin(name, NoCallArgs)
        /\ texts' = ts /\ calls' = << >> /\ responses' = << >>
        /\ sent' = NotSent /\ caller_config' = EmptyOptions
        /\ result' = NoResult
        /\ IF handle = None
           THEN pc' = "raised" /\ error' = NoGetModel
           ELSE pc' = "embed" /\ error' = NoError
        /\ UNCHANGED <<adapterVars, earlier>>

\* One element of the comprehension over texts; after the last one, the
\* conversion of the embeddings to floats and the return.
EmbedNext ==
    /\ pc = "embed"
    /\ IF Len(calls) < Len(texts)
       THEN \E response \in EmbeddingResponseSet :
              /\ calls' = Append(calls, texts[Len(calls) + 1])
              /\ responses' = Append(responses, response)
              /\ IF response.data = << >>
                 THEN pc' = "raised" /\ error' = NoData
                 ELSE pc' = "embed" /\ UNCHANGED error
              /\ UNCHANGED result
       ELSE /\ result' = [i \in 1..Len(responses) |-> ToFloats(EmbeddingOf(responses[i]))]
            /\ pc' = "done"
            /\ UNCHANGED <<calls, responses, error>>
    /\ UNCHANGED <<adapterVars, earlier, op, args, caller_config,
                   sent, emitted, token, chunk, observed, tokens,
                   chunks, combined, texts>>

\* embed_query (through self.client) and aembed_query (through self.async_client)
EmbedQuery(name, text) ==
    LET handle == IF name = "embed_query" THEN client ELSE async_client
    IN  /\ built = "ok" /\ kind = "emb" /\ pc = "idle"
        /\ Begin(name, NoCallArgs)
        /\ texts' = <<text>>
        /\ sent' = NotSent /\ caller_config' = EmptyOptions
        /\ IF handle = None
           THEN /\ pc' = "raised" /\ error' = NoGetModel
                /\ result' = NoResult
                /\ calls' = << >> /\ responses' = << >>
           ELSE \E response \in EmbeddingResponseSet :
                  /\ calls' = <<text>>
                  /\ responses' = <<response>>
                  /\ IF response.data = << >>
                     THEN pc' = "raised" /\ error' = NoData /\ result' = NoResult
                     ELSE /\ pc' = "done" /\ error' = NoError
                          /\ result' = ToFloats(EmbeddingOf(response))
        /\ UNCHANGED <<adapterVars, earlier>>

----------------------------------------------------------------------------
(* The specification *)

Init ==
    /\ kind = "none"
    /\ built = "no"
    /\ ctorError = NoError
    /\ ctorArgs = NoArgs
    /\ probe = NoProbe
    /\ server_url = None
    /\ model_uid = None
    /\ model_kwargs = EmptyOptions
    /\ headers = NoHeader
    /\ cluster_authed = FALSE
    /\ client = None
    /\ async_client = None
    /\ op = "none"
    /\ pc = "idle"
    /\ args = NoCallArgs
    /\ caller_config = EmptyOptions
    /\ sent = NotSent
    /\ emitted = << >>
    /\ token = EmptyStr
    /\ chunk = NoChunk
    /\ observed = << >>
    /\ tokens = << >>
    /\ chunks = << >>
    /\ combined = EmptyStr
    /\ texts = << >>
    /\ calls = << >>
    /\ responses = << >>
    /\ result = NoResult
    /\ error = NoError
    /\ earlier = FALSE

\* The operation has returned or raised: control is back with the caller, who
\* may start the next operation on the same adapter.
Return ==
    /\ pc \in {"done", "raised"}
    /\ op' = "none"
    /\ pc' = "idle"
    /\ args' = NoCallArgs
    /\ caller_config' = EmptyOptions
    /\ sent' = NotSent
    /\ emitted' = << >>
    /\ token' = EmptyStr
    /\ chunk' = NoChunk
    /\ observed' = << >>
    /\ tokens' = << >>
    /\ chunks' = << >>
    /\ combined' = EmptyStr
    /\ texts' = << >>
    /\ calls' = << >>
    /\ responses' = << >>
    /\ result' = NoResult
    /\ error' = NoError
    /\ earlier' = (\/ earlier
                   \/ /\ op \in {"stream", "astream"} /\ sent # NotSent
                      /\ Truthy(args.stop)
                      /\ sent["stream"] # DictMerge(model_kwargs, args.generate_config)["stream"])
    /\ UNCHANGED adapterVars

CallAny ==
    \E name \in {"call", "acall"}, gc \in GenerateConfigSet, stop \in StopArgSet,
       rm \in BOOLEAN : Call(name, gc, stop, rm)

StreamAny ==
    \E name \in {"stream", "astream"}, gc \in GenerateConfigSet, stop \in StopArgSet,
       rm \in BOOLEAN : Stream(name, gc, stop, rm)

EmbedDocumentsAny ==
    \E name \in {"embed_documents", "aembed_documents"}, ts \in TextsSet :
        EmbedDocuments(name, ts)

EmbedQueryAny ==
    \E name \in {"embed_query", "aembed_query"}, text \in TextSet :
        EmbedQuery(name, text)

Next ==
    \/ XinferenceInit
    \/ XinferenceEmbeddingsInit
    \/ CallAny
    \/ StreamGenerateNext
    \/ StreamGenerateNotify
    \/ StreamGenerateYield
    \/ StreamAny
    \/ StreamNext
    \/ StreamNotify
    \/ StreamYield
    \/ EmbedDocumentsAny
    \/ EmbedNext
    \/ EmbedQueryAny
    \/ Return

Spec == Init /\ [][Next]_vars

----------------------------------------------------------------------------
(* Properties *)

CallOps == {"call", "acall"}
StreamOps == {"stream", "astream"}
AsyncOps == {"acall", "astream", "aembed_documents", "aembed_query"}

\* The text of the first choice of a fragment; a fragment without a first
\* choice that is a mapping has none.
FirstChoiceText(frag) == IF frag.shape = "choice" THEN frag.text ELSE EmptyStr

RECURSIVE ConcatTexts(_)
ConcatTexts(frags) ==
    IF frags = << >> THEN EmptyStr
    ELSE FirstChoiceText(Head(frags)) \o ConcatTexts(Tail(frags))

RECURSIVE ConcatStrings(_)
ConcatStrings(ss) ==
    IF ss = << >> THEN EmptyStr ELSE Head(ss) \o ConcatStrings(Tail(ss))

NonEmptyFragment(frag) == frag.shape # "empty"
EmptyChunk == [text |-> EmptyStr,
               generation_info |-> [present |-> FALSE, finish_reason |-> None,
                                    logprobs |-> None]]

\* C1: a constructor called without server_url or without model_uid (either
\* or both) raises ValueError and leaves no adapter: no handle is created and
\* no operation ever runs.
C1_MissingArgumentFails ==
    (built # "no" /\ (ctorArgs.server_url = None \/ ctorArgs.model_uid = None))
        => /\ built = "failed"
           /\ ctorError.type = "ValueError"
           /\ client = None /\ async_client = None
           /\ op = "none" /\ pc = "idle"

C1_Witness ==
    /\ built = "failed" /\ kind = "emb"
    /\ ctorArgs.server_url # None /\ ctorArgs.model_uid = None
    /\ ctorError = Raise("ValueError", "Please provide the model UID")

\* C2: after a successful construction the Authorization header is present
\* exactly when the probe answered 200 with auth true and an api_key was given,
\* and then it carries that key.
C2_HeaderIffAuthedAndKey ==
    built = "ok" =>
        /\ headers.present <=> (/\ probe.status_code = 200
                                /\ probe.auth = "True"
                                /\ ctorArgs.api_key # None)
        /\ headers.present => headers.value = ctorArgs.api_key

C2_Witness ==
    /\ built = "ok" /\ kind = "llm"
    /\ headers = [present |-> TRUE, value |-> "key"]
    /\ probe.status_code = 200

\* C3: with async_client absent, every asynchronous operation of either
\* adapter raises the error "Client is not initialized!".
C3_AsyncRaisesNotInitialized ==
    (built = "ok" /\ async_client = None /\ op \in AsyncOps)
        => (pc = "raised" /\ error = Raise("ValueError", "Client is not initialized!"))

\* C4: a call / acall whose merged options have stream on returns the
\* concatenation, in emission order, of the first-choice texts of the fragments
\* the remote call emitted.
C4_CallReturnsConcatenation ==
    (op \in CallOps /\ pc = "done" /\ sent["stream"] = "True")
        => result = ConcatTexts(emitted)

C4_Witness ==
    /\ op = "acall" /\ pc = "done" /\ sent["stream"] = "True"
    /\ Len(emitted) = 2
    /\ emitted[1].shape = "choice" /\ emitted[2].shape = "choice"
    /\ emitted[1].text # emitted[2].text
    /\ result = emitted[1].text \o emitted[2].text

\* C5 as stated: stream / astream send stream on and, when the stream has
\* ended, have yielded one chunk per emitted fragment, in order, with the
\* fragment's first-choice text.
C5_OneChunkPerFragment ==
    (op \in StreamOps /\ sent # NotSent) =>
        /\ sent["stream"] = "True"
        /\ pc = "done" =>
              /\ Len(chunks) = Len(emitted)
              /\ \A i \in 1..Len(chunks) : chunks[i].text = FirstChoiceText(emitted[i])

\* C5 amended: stream / astream send stream on and yield one chunk per
\* non-empty fragment, in order, with that fragment's first-choice text; an
\* empty fragment yields nothing; while the loop waits for the next fragment
\* and when the stream has ended, every non-empty fragment has its chunk.
C5_OneChunkPerNonEmptyFragment ==
    (op \in StreamOps /\ sent # NotSent) =>
        LET kept == SelectSeq(emitted, NonEmptyFragment)
        IN  /\ sent["stream"] = "True"
            /\ Len(chunks) <= Len(kept)
            /\ \A i \in 1..Len(chunks) : chunks[i].text = FirstChoiceText(kept[i])
            /\ pc \in {"stream", "done"} => Len(chunks) = Len(kept)
            /\ pc \in {"stream_notify", "stream_yield", "raised"}
                  => Len(chunks) = Len(kept) - 1

C5_Witness ==
    /\ op = "stream" /\ pc = "done"
    /\ args.generate_config["stream"] = "False"
    /\ sent["stream"] = "True"
    /\ Len(emitted) = 2
    /\ emitted[1].shape = "empty" /\ emitted[2].shape = "choice"
    /\ Len(chunks) = 1 /\ chunks[1].text = emitted[2].text

\* The defaults overridden key by key by generate_config, with a non-empty stop
\* argument in place of 'stop'.
ExpectedOptions ==
    [k \in Keys |->
        IF k = "stop" /\ args.stop \notin {None, "[]"} THEN args.stop
        ELSE IF args.generate_config[k] # Absent THEN args.generate_config[k]
        ELSE model_kwargs[k]]

\* C6 as stated: in every completion operation the options passed to the remote
\* generate call are the defaults overridden by generate_config, with a
\* non-empty stop argument as 'stop'.
C6_SentIsMerge ==
    (op \in CallOps \cup StreamOps /\ sent # NotSent) => sent = ExpectedOptions

\* C6 amended: as stated for call / acall; for stream / astream the same,
\* except that 'stream' is True whenever the merge has it missing or false.
C6_SentIsMergeStreamForced ==
    (op \in CallOps \cup StreamOps /\ sent # NotSent) =>
        sent = IF op \in StreamOps /\ ExpectedOptions["stream"] \in {Absent, "False"}
               THEN [ExpectedOptions EXCEPT !["stream"] = "True"]
               ELSE ExpectedOptions

C6_Witness ==
    /\ op = "astream" /\ sent # NotSent
    /\ model_kwargs["stop"] = "[a]"
    /\ args.generate_config["stop"] = "[b]"
    /\ args.stop = "[c]"
    /\ sent["stop"] = "[c]"

\* C7: in stream / astream a fragment whose choices list is empty gives exactly
\* one chunk, with empty text and no generation_info: the chunk is pending right
\* after the fragment was read and is afterwards at the fragment's place among
\* the yielded chunks.  In call / acall the fragment raises nothing and adds
\* nothing to the returned string.
C7_EmptyChoicesOneEmptyChunk ==
    \A i \in 1..Len(emitted) :
        emitted[i].shape = "nochoices" =>
            /\ op \in StreamOps =>
                  LET k == Len(SelectSeq(SubSeq(emitted, 1, i), NonEmptyFragment))
                  IN  \/ /\ k <= Len(chunks)
                         /\ chunks[k] = EmptyChunk
                      \/ /\ k = Len(chunks) + 1
                         /\ i = Len(emitted)
                         /\ pc \in {"stream_notify", "stream_yield"}
                         /\ chunk = EmptyChunk
            /\ (op \in CallOps /\ i = Len(emitted)) =>
                  /\ pc \in {"generate", "done"}
                  /\ error = NoError
                  /\ combined = ConcatTexts(SubSeq(emitted, 1, i - 1))
                  /\ pc = "done" => result = combined

C7_Witness ==
    /\ op = "stream" /\ pc = "done"
    /\ Len(emitted) = 2
    /\ emitted[1].shape = "choice" /\ emitted[2].shape = "nochoices"
    /\ Len(chunks) = 2 /\ chunks[2] = EmptyChunk

\* C8: in every streaming completion path a fragment whose first choice is not
\* a mapping makes the operation raise TypeError at that fragment: it is the
\* last fragment read.
C8_BadChoiceRaisesTypeError ==
    \A i \in 1..Len(emitted) :
        (op \in CallOps \cup StreamOps /\ emitted[i].shape = "badchoice") =>
            /\ i = Len(emitted)
            /\ pc = "raised"
            /\ error.type = "TypeError"

\* C9: embed_documents calls create_embedding once per text, in input order,
\* and returns, for the i-th text, the first data entry of the i-th response
\* as floats.
C9_EmbedDocumentsPerTextInOrder ==
    (op = "embed_documents" /\ pc # "idle") =>
        /\ Len(calls) <= Len(texts)
        /\ Len(responses) = Len(calls)
        /\ \A i \in 1..Len(calls) : calls[i] = texts[i]
        /\ pc = "done" =>
              /\ Len(calls) = Len(texts)
              /\ Len(result) = Len(texts)
              /\ \A i \in 1..Len(result) :
                    LET e == responses[i].data[1]
                    IN  /\ Len(result[i]) = Len(e)
                        /\ \A j \in 1..Len(e) :
                              result[i][j] = [t |-> "float", v |-> e[j].v]

C9_Witness ==
    /\ op = "embed_documents" /\ pc = "done"
    /\ texts = <<"a", "a">>
    /\ responses[1] # responses[2]
    /\ Len(responses[1].data) = 2
    /\ Len(result) = 2 /\ result[1] # result[2]

\* What the direct caller has received: the texts of the yielded chunks
\* (stream / astream), the tokens yielded into the accumulation (call / acall).
Delivered ==
    IF op \in StreamOps THEN [i \in 1..Len(chunks) |-> chunks[i].text] ELSE tokens
Pending == IF op \in StreamOps THEN chunk.text ELSE token

\* C10: with a run_manager, in every streaming path the observer has received
\* exactly the tokens the caller has received, in the same order, plus at most
\* the one token that is about to be yielded; when the loop waits for the next
\* fragment or the operation is over the two sequences are equal, and the
\* string call / acall returns is the concatenation of the observed tokens.
C10_ObserverMatchesCaller ==
    (op \in CallOps \cup StreamOps /\ args.run_manager /\ sent # NotSent) =>
        /\ Len(Delivered) <= Len(observed)
        /\ \A i \in 1..Len(Delivered) : observed[i] = Delivered[i]
        /\ pc \in {"generate_yield", "stream_yield"} =>
              observed = Append(Delivered, Pending)
        /\ pc \notin {"generate_yield", "stream_yield"} => observed = Delivered
        /\ (op \in CallOps /\ pc = "done" /\ sent["stream"] = "True") =>
              result = ConcatStrings(observed)

C10_Witness ==
    /\ op = "astream" /\ args.run_manager /\ pc = "stream_yield"
    /\ Len(chunks) = 1
    /\ observed = <<chunks[1].text, chunk.text>>
    /\ chunk.text # chunks[1].text

\* C11: after any sequence of completion operations the adapter still has the
\* model_kwargs, server_url and model_uid it was constructed with, and the
\* caller's generate_config mapping holds what the caller passed; so a call
\* without a stop argument sends the 'stop' of generate_config or of the
\* defaults, and call / acall send the 'stream' of generate_config or of the
\* defaults, whatever earlier operations passed or forced.
C11_ConfigurationUnchanged ==
    (built = "ok" /\ kind = "llm") =>
        /\ model_kwargs = ctorArgs.model_kwargs
        /\ server_url = ctorArgs.server_url
        /\ model_uid = ctorArgs.model_uid
        /\ op \in CallOps \cup StreamOps =>
              caller_config = args.generate_config
        /\ (op \in CallOps \cup StreamOps /\ sent # NotSent) =>
              /\ args.stop \in {None, "[]"} =>
                    sent["stop"] =
                        IF args.generate_config["stop"] # Absent
                        THEN args.generate_config["stop"]
                        ELSE ctorArgs.model_kwargs["stop"]
              /\ op \in CallOps =>
                    sent["stream"] =
                        IF args.generate_config["stream"] # Absent
                        THEN args.generate_config["stream"]
                        ELSE ctorArgs.model_kwargs["stream"]

\* A call without stop and without stream in its generate_config, on an adapter
\* whose defaults have neither, after an operation that passed a stop list and
\* had stream forced on: nothing of that operation is in the options sent.
C11_Witness ==
    /\ earlier
    /\ op = "call" /\ pc = "done" /\ sent # NotSent
    /\ args.stop = None
    /\ args.generate_config = EmptyOptions
    /\ ctorArgs.model_kwargs = EmptyOptions
    /\ model_kwargs = EmptyOptions
    /\ sent = EmptyOptions

====
